---- MODULE Spec2Model ----
(***************************************************************************)
(* Session processing pipeline of src/index.js: the in-memory registry     *)
(* DB.sessions, the create / status / reprocess request handlers and the   *)
(* asynchronous processSession runs they start.                            *)
(*                                                                         *)
(* JavaScript scheduling is modelled as it is: a request handler (a        *)
(* macrotask) runs to completion, including the synchronous prefix of the  *)
(* processSession call it makes; a provider reply is a macrotask that      *)
(* settles a promise; the continuation of an awaiting async function is a  *)
(* microtask, and every pending microtask runs before the next macrotask.  *)
(* A state in which no run has a pending microtask is one a request        *)
(* handler (a poll) can observe.                                           *)
(***************************************************************************)
EXTENDS Integers, Sequences, FiniteSets, TLC

\* ------------------------------------------------------------------ bounds
MaxClock == 2      \* Date.now() takes the values 1..MaxClock
MaxSessions == 2   \* session objects ever constructed by POST /api/sessions
MaxRuns == 2       \* processSession invocations ever started
MaxTextLen == 5    \* atoms in a completion text given to the sanitizer

\* ------------------------------------------------------- program constants
MinTranscriptLen == 20   \* index.js:297
SummaryMin == 20         \* insights.schema.js:4
KeyConceptsMin == 1      \* insights.schema.js:8
KeyConceptsMax == 6      \* insights.schema.js:9
FlashcardFieldMin == 5   \* insights.schema.js:14-15
FlashcardsMax == 5       \* insights.schema.js:18
ActionItemsMin == 1      \* insights.schema.js:22
ActionItemsMax == 5      \* insights.schema.js:23

\* ------------------------------------------------------------ value helpers
\* A nullable field is the empty sequence (null) or a one-element sequence.
Null == <<>>
Some(x) == <<x>>

Rep(c, n) == [i \in 1..n |-> c]

\* Text is a sequence of one-character strings.
Whitespace == {" ", "\n", "\t"}

RECURSIVE TrimLeft(_)
TrimLeft(s) ==
  IF s # <<>> /\ Head(s) \in Whitespace THEN TrimLeft(Tail(s)) ELSE s

RECURSIVE TrimRight(_)
TrimRight(s) ==
  IF s # <<>> /\ s[Len(s)] \in Whitespace
    THEN TrimRight(SubSeq(s, 1, Len(s) - 1))
    ELSE s

\* String.prototype.trim
Trim(s) == TrimRight(TrimLeft(s))

\* ------------------------------------------------- insights schema (zod)
\* A parsed JSON value is a record with a kind; an object carries its fields.
FlashcardValid(f) ==
  /\ Len(f.question) >= FlashcardFieldMin
  /\ Len(f.answer) >= FlashcardFieldMin

\* The schema without the upper bound on flashcards.
InsightsSchemaNoFlashcardsMax(v) ==
  /\ v.kind = "object"
  /\ Len(v.summary) >= SummaryMin
  /\ Len(v.keyConcepts) >= KeyConceptsMin
  /\ Len(v.keyConcepts) <= KeyConceptsMax
  /\ \A i \in 1..Len(v.flashcards) : FlashcardValid(v.flashcards[i])
  /\ Len(v.actionItems) >= ActionItemsMin
  /\ Len(v.actionItems) <= ActionItemsMax

\* InsightsSchema.safeParse(v).success
InsightsSchema(v) ==
  /\ v.kind = "object"
  /\ Len(v.summary) >= SummaryMin
  /\ Len(v.keyConcepts) >= KeyConceptsMin
  /\ Len(v.keyConcepts) <= KeyConceptsMax
  /\ Len(v.flashcards) <= FlashcardsMax
  /\ \A i \in 1..Len(v.flashcards) : FlashcardValid(v.flashcards[i])
  /\ Len(v.actionItems) >= ActionItemsMin
  /\ Len(v.actionItems) <= ActionItemsMax

\* The object processSession stores when the transcript is too short.
FallbackInsights ==
  [kind |-> "object",
   summary |->
     "The recording did not contain enough audible content to generate insights.",
   keyConcepts |-> <<>>,
   flashcards |-> <<>>,
   actionItems |-> <<"Re-record the session with clearer speech.",
                     "Ensure the microphone is close to the speaker.",
                     "Avoid long silences during recording.">>]

\* ------------------------------------------- model output: sanitize, parse
\* Completion text is a sequence of atoms: the fence (three backquotes, written
\* "<fence>" here), the language tag,
\* whitespace characters, and JSON documents (or non-JSON prose) taken whole.
Fence == "<fence>"
LangTags == {"json", "JSON"}

\* The JSON documents the completion provider is made to return.
GoodInsights ==
  [kind |-> "object",
   summary |-> "Photosynthesis has light and dark reactions.",
   keyConcepts |-> <<"photosynthesis">>,
   flashcards |-> <<[question |-> "What is ATP?", answer |-> "An energy carrier"] >>,
   actionItems |-> <<"Review the Calvin cycle">>]

SevenConcepts ==
  [GoodInsights EXCEPT !.keyConcepts = Rep("concept", KeyConceptsMax + 1)]

JsonDocs == {"{good}", "{7 keyConcepts}", "42"}

\* JSON.parse of one document
JsonValue(d) ==
  CASE d = "{good}" -> GoodInsights
    [] d = "{7 keyConcepts}" -> SevenConcepts
    [] OTHER -> [kind |-> "number"]

\* raw.replace(/^<fence>(?:json)?\s*/i, "")
StripOpeningFence(s) ==
  LET a == Tail(s)
      b == IF a # <<>> /\ Head(a) \in LangTags THEN Tail(a) ELSE a
  IN  TrimLeft(b)

\* The closing fence removed without the whitespace before it.
StripClosingFenceKeepsSpace(s) ==
  IF s # <<>> /\ s[Len(s)] = Fence
    THEN SubSeq(s, 1, Len(s) - 1)
    ELSE s

\* raw.replace(/\s*<fence>$/, "")
StripClosingFence(s) ==
  IF s # <<>> /\ s[Len(s)] = Fence
    THEN TrimRight(SubSeq(s, 1, Len(s) - 1))
    ELSE s

\* The sanitizing step without its fence removal.
SanitizeTrimOnly(raw) == Trim(raw)

\* index.js:507-512
Sanitize(raw) ==
  LET t == Trim(raw) IN
  IF t # <<>> /\ Head(t) = Fence
    THEN StripClosingFence(StripOpeningFence(t))
    ELSE t

\* JSON.parse succeeds: one document, surrounded by whitespace at most
JsonParses(text) ==
  LET t == Trim(text) IN Len(t) = 1 /\ t[1] \in JsonDocs

JsonParse(text) == JsonValue(Trim(text)[1])

InvalidJsonError == "LLM returned invalid JSON"
SchemaError == "LLM output failed schema validation"

\* generateInsightsFromTranscript after the provider has answered raw:
\* [ok |-> TRUE, value |-> parsed] or [ok |-> FALSE, error |-> message].
InsightsFromRaw(raw) ==
  LET text == Sanitize(raw) IN
  IF ~JsonParses(text)
    THEN [ok |-> FALSE, error |-> InvalidJsonError]
    ELSE IF ~InsightsSchema(JsonParse(text))
      THEN [ok |-> FALSE, error |-> SchemaError]
      ELSE [ok |-> TRUE, value |-> JsonParse(text)]

\* String(result || "").trim() in transcribeAudioWithWhisper
WhisperText(result) == Trim(result)

\* The guard with its comparison off by one (<= for <).
TranscriptTooShortInclusive(transcript) ==
  transcript = <<>> \/ Len(Trim(transcript)) <= MinTranscriptLen

\* !transcript || transcript.trim().length < 20
TranscriptTooShort(transcript) ==
  transcript = <<>> \/ Len(Trim(transcript)) < MinTranscriptLen

\* err.message || "Unknown error"
ErrorMessage(m) == IF m = "" THEN "Unknown error" ELSE m

\* ------------------------------------------------------ provider behaviour
\* What openai.audio.transcriptions.create may resolve with.
WhisperResults ==
  { <<" ", "\n">>,
    <<" ">> \o Rep("a", MinTranscriptLen - 1) \o <<"\n">>,
    Rep("a", MinTranscriptLen) \o <<"\n">> }

\* What response.choices[0].message.content may be.
CompletionTexts ==
  { <<"{good}">>,
    <<"\n", Fence, "json", "\n", "{good}", "\n", Fence, "\n">>,
    <<Fence, "\n", "{7 keyConcepts}", "\n", Fence>>,
    <<"Sure!", " ", "{good}">> }

\* Messages of the errors the provider calls reject with.
WhisperErrors == {"Connection error."}
CompletionErrors == {"429 Rate limit reached"}

MissingKeyError == "Missing OPENAI_API_KEY in .env"
AudioNotFoundError == "Audio file not found"

\* ------------------------------------------------------------------- state
VARIABLES
  now,           \* Date.now()
  apiKey,        \* process.env.OPENAI_API_KEY is set
  files,         \* paths under UPLOAD_DIR that exist on disk
  DB,            \* DB.sessions: id -> session object (0: no entry)
  heap,          \* the session objects, by reference
  runs,          \* the processSession invocations, with their catch handlers
  polled,        \* status and progress of each session when last observable
  probe          \* a direct application of one of the pure functions

vars == <<now, apiKey, files, DB, heap, runs, polled, probe>>

Ids == 1..MaxClock          \* the id `sess-${t}` is written t
Objs == 1..Len(heap)
Runs == 1..Len(runs)

\* A run awaits a provider, has a continuation queued as a microtask, or is over.
AwaitingPcs == {"whisper", "completion"}
MicrotaskPcs == {"transcribed", "guard", "insights", "rejected"}
FinalPcs == {"done", "failed"}

InFlight(r) == runs[r].pc \notin FinalPcs

\* The microtask queue is empty: the next macrotask (a request, a provider
\* reply) can run, and this is a state a request can observe.
Idle == \A r \in Runs : runs[r].pc \notin MicrotaskPcs

\* What status polls of every session return (index.js:137-141).
Snapshot(h) ==
  [o \in 1..Len(h) |-> [status |-> h[o].status, progress |-> h[o].progress]]

\* polled follows the registry whenever the event loop is back between
\* macrotasks, and keeps the last observable values while microtasks run.
Observe == polled' = IF Idle' THEN Snapshot(heap') ELSE polled

\* index.js:78-95
NewSession(id, t) ==
  [id |-> id, audioPath |-> t, transcript |-> <<>>, insights |-> Null,
   status |-> "processing", progress |-> 0, error |-> Null,
   createdAt |-> t, processedAt |-> Null]

\* The reset without the line that empties transcript.
ResetKeepsTranscript(s) ==
  [s EXCEPT !.status = "processing", !.progress = 0, !.error = Null,
            !.insights = Null, !.processedAt = Null]

\* index.js:149-154
ResetForReprocess(s) ==
  [s EXCEPT !.status = "processing", !.progress = 0, !.error = Null,
            !.transcript = <<>>, !.insights = Null, !.processedAt = Null]

\* Step 1 without its progress write.
MarkProcessingStatusOnly(s) == [s EXCEPT !.status = "processing"]

\* index.js:287-288
MarkProcessing(s) == [s EXCEPT !.progress = 10, !.status = "processing"]

\* The transcript stored without the status write.
MarkTranscribedNoStatus(s, transcript) ==
  [s EXCEPT !.transcript = transcript, !.progress = 60]

\* index.js:292-294
MarkTranscribed(s, transcript) ==
  [s EXCEPT !.transcript = transcript, !.progress = 60,
            !.status = "transcribed"]

\* The fallback path without its processedAt write.
MarkReadyFallbackNoTimestamp(s, t) ==
  [s EXCEPT !.insights = Some(FallbackInsights), !.status = "ready",
            !.progress = 100]

\* index.js:300-314
MarkReadyFallback(s, t) ==
  [s EXCEPT !.insights = Some(FallbackInsights), !.status = "ready",
            !.progress = 100, !.processedAt = Some(t)]

\* index.js:323-326
MarkReady(s, insights, t) ==
  [s EXCEPT !.insights = Some(insights), !.progress = 100,
            !.status = "ready", !.processedAt = Some(t)]

\* The .catch handler without its progress reset.
MarkFailedKeepsProgress(s, message) ==
  [s EXCEPT !.status = "failed", !.error = Some(ErrorMessage(message))]

\* index.js:101-103 and 158-160
MarkFailed(s, message) ==
  [s EXCEPT !.status = "failed", !.progress = 0,
            !.error = Some(ErrorMessage(message))]

\* The two checks in the other order.
TranscribeStartErrorFileFirst(audioPath, key, onDisk) ==
  IF audioPath \notin onDisk THEN AudioNotFoundError
  ELSE IF ~key THEN MissingKeyError
  ELSE ""

\* transcribeAudioWithWhisper up to its await (index.js:336-350): the
\* error it throws, or "" when it has issued the provider call.
TranscribeStartError(audioPath, key, onDisk) ==
  IF ~key THEN MissingKeyError
  ELSE IF audioPath \notin onDisk THEN AudioNotFoundError
  ELSE ""

\* processSession from its call to its first await (index.js:283-290), as
\* the run record the caller is left with. The rejection of the promise is
\* delivered to the .catch handler in a microtask, never synchronously.
StartedRun(o, kind, audioPath, key, onDisk) ==
  LET e == TranscribeStartError(audioPath, key, onDisk) IN
  [obj |-> o, kind |-> kind,
   pc |-> IF e = "" THEN "whisper" ELSE "rejected",
   audioPath |-> audioPath,
   err |-> e, transcript |-> <<>>, insights |-> Null,
   whisperCalls |-> IF e = "" THEN 1 ELSE 0,
   completionCalls |-> 0, response |-> "", concurrent |-> FALSE]

\* The response built only after a synchronous failure of the run has been
\* handled, as if the rejection were delivered before the handler goes on.
ResponseStatusAfterCatch(session, run) ==
  IF run.pc = "rejected" THEN "failed" ELSE session.status

\* The status the handler's response carries (index.js:108, 163): the
\* session's status when processSession has returned its promise; a
\* rejection of that promise has not reached the .catch handler yet.
ResponseStatus(session, run) == session.status

\* GET /api/sessions/:id/status (index.js:133-142): a read of the registry.
StatusResponse(id) ==
  IF DB[id] = 0
    THEN [code |-> 404]
    ELSE [code |-> 200, status |-> heap[DB[id]].status,
          progress |-> heap[DB[id]].progress, error |-> heap[DB[id]].error]

\* No function is being applied on its own.
NoProbe == [op |-> "none", arg |-> <<>>, out |-> <<>>]

Init ==
  /\ probe = NoProbe
  /\ now = 1
  /\ apiKey \in BOOLEAN
  /\ files = {}
  /\ DB = [i \in Ids |-> 0]
  /\ heap = <<>>
  /\ runs = <<>>
  /\ polled = <<>>

\* ----------------------------------------------------------- environment
\* The clock advances between macrotasks.
Tick ==
  /\ Idle
  /\ now < MaxClock
  /\ now' = now + 1
  /\ UNCHANGED <<probe, apiKey, files, DB, heap, runs, polled>>

\* An uploaded file disappears from UPLOAD_DIR.
RemoveAudio(p) ==
  /\ Idle
  /\ p \in files
  /\ files' = files \ {p}
  /\ UNCHANGED <<probe, now, apiKey, DB, heap, runs, polled>>

\* ------------------------------------------------------- request handlers
\* POST /api/sessions (index.js:71-112) with a file; without one the handler
\* answers 400 and touches nothing. multer has stored the upload under
\* UPLOAD_DIR, named after Date.now(), before the handler runs. The response
\* is built after processSession has returned its promise, from the status
\* the session has then.
CreateSession ==
  /\ Idle
  /\ Len(heap) < MaxSessions
  /\ Len(runs) < MaxRuns
  /\ LET id == now
         o == Len(heap) + 1
         onDisk == files \cup {now}
         session == MarkProcessing(NewSession(id, now))
         run == StartedRun(o, "create", session.audioPath, apiKey, onDisk)
     IN  /\ files' = onDisk
         /\ heap' = Append(heap, session)
         /\ DB' = [DB EXCEPT ![id] = o]
         /\ runs' = Append(runs,
                      [run EXCEPT !.response = ResponseStatus(session, run)])
  /\ UNCHANGED <<probe, now, apiKey>>
  /\ Observe

\* A run on session object o has not settled yet. The handler never looks:
\* the run record keeps it as history.
OtherRunInFlight(o) == \E q \in Runs : runs[q].obj = o /\ InFlight(q)

\* POST /api/sessions/:id/reprocess (index.js:145-164) for a known id; for
\* an unknown one the handler answers 404 and touches nothing.
Reprocess(id) ==
  /\ Idle
  /\ DB[id] # 0
  /\ Len(runs) < MaxRuns
  /\ LET o == DB[id]
         s == MarkProcessing(ResetForReprocess(heap[o]))
         run == StartedRun(o, "reprocess", s.audioPath, apiKey, files)
     IN  /\ heap' = [heap EXCEPT ![o] = s]
         /\ runs' = Append(runs,
                      [run EXCEPT !.response = ResponseStatus(s, run),
                                  !.concurrent = OtherRunInFlight(o)])
  /\ UNCHANGED <<probe, now, apiKey, files, DB>>
  /\ Observe

\* -------------------------------------------------------- provider replies
\* openai.audio.transcriptions.create resolves (index.js:346-357)
WhisperResolve(r, result) ==
  /\ Idle
  /\ runs[r].pc = "whisper"
  /\ runs' = [runs EXCEPT ![r].pc = "transcribed",
                          ![r].transcript = WhisperText(result)]
  /\ UNCHANGED <<probe, now, apiKey, files, DB, heap>>
  /\ Observe

\* openai.audio.transcriptions.create rejects
WhisperReject(r, message) ==
  /\ Idle
  /\ runs[r].pc = "whisper"
  /\ runs' = [runs EXCEPT ![r].pc = "rejected", ![r].err = message]
  /\ UNCHANGED <<probe, now, apiKey, files, DB, heap>>
  /\ Observe

\* openai.chat.completions.create resolves; generateInsightsFromTranscript
\* sanitizes, parses and validates the text (index.js:501-528)
CompletionResolve(r, raw) ==
  /\ Idle
  /\ runs[r].pc = "completion"
  /\ LET res == InsightsFromRaw(raw) IN
     runs' = IF res.ok
               THEN [runs EXCEPT ![r].pc = "insights",
                                 ![r].insights = Some(res.value)]
               ELSE [runs EXCEPT ![r].pc = "rejected", ![r].err = res.error]
  /\ UNCHANGED <<probe, now, apiKey, files, DB, heap>>
  /\ Observe

\* openai.chat.completions.create rejects
CompletionReject(r, message) ==
  /\ Idle
  /\ runs[r].pc = "completion"
  /\ runs' = [runs EXCEPT ![r].pc = "rejected", ![r].err = message]
  /\ UNCHANGED <<probe, now, apiKey, files, DB, heap>>
  /\ Observe

\* ------------------------------------------- continuations of processSession
\* index.js:292-294
Transcribed(r) ==
  /\ runs[r].pc = "transcribed"
  /\ heap' = [heap EXCEPT ![runs[r].obj] =
                MarkTranscribed(heap[runs[r].obj], runs[r].transcript)]
  /\ runs' = [runs EXCEPT ![r].pc = "guard"]
  /\ UNCHANGED <<probe, now, apiKey, files, DB>>
  /\ Observe

\* index.js:297-318: the short-transcript guard and its fallback
GuardShort(r) ==
  /\ runs[r].pc = "guard"
  /\ TranscriptTooShort(runs[r].transcript)
  /\ heap' = [heap EXCEPT ![runs[r].obj] =
                MarkReadyFallback(heap[runs[r].obj], now)]
  /\ runs' = [runs EXCEPT ![r].pc = "done"]
  /\ UNCHANGED <<probe, now, apiKey, files, DB>>
  /\ Observe

\* index.js:297, 321 and 492-499: the completion provider is called
GuardLong(r) ==
  /\ runs[r].pc = "guard"
  /\ ~TranscriptTooShort(runs[r].transcript)
  /\ runs' = [runs EXCEPT ![r].pc = "completion",
                          ![r].completionCalls = @ + 1]
  /\ UNCHANGED <<probe, now, apiKey, files, DB, heap>>
  /\ Observe

\* index.js:323-326
StoreInsights(r) ==
  /\ runs[r].pc = "insights"
  /\ heap' = [heap EXCEPT ![runs[r].obj] =
                MarkReady(heap[runs[r].obj], runs[r].insights[1], now)]
  /\ runs' = [runs EXCEPT ![r].pc = "done"]
  /\ UNCHANGED <<probe, now, apiKey, files, DB>>
  /\ Observe

\* A .catch handler that only logs the error.
CatchHandlerLogsOnly(r) ==
  /\ runs[r].pc = "rejected"
  /\ runs' = [runs EXCEPT ![r].pc = "failed"]
  /\ UNCHANGED <<probe, now, apiKey, files, DB, heap>>
  /\ Observe

\* The .catch handler of the caller (index.js:99-104, 156-161)
CatchHandler(r) ==
  /\ runs[r].pc = "rejected"
  /\ heap' = [heap EXCEPT ![runs[r].obj] =
                MarkFailed(heap[runs[r].obj], runs[r].err)]
  /\ runs' = [runs EXCEPT ![r].pc = "failed"]
  /\ UNCHANGED <<probe, now, apiKey, files, DB>>
  /\ Observe

Next ==
  \/ Tick
  \/ \E p \in Ids : RemoveAudio(p)
  \/ CreateSession
  \/ \E id \in Ids : Reprocess(id)
  \/ \E r \in Runs, result \in WhisperResults : WhisperResolve(r, result)
  \/ \E r \in Runs, m \in WhisperErrors : WhisperReject(r, m)
  \/ \E r \in Runs, raw \in CompletionTexts : CompletionResolve(r, raw)
  \/ \E r \in Runs, m \in CompletionErrors : CompletionReject(r, m)
  \/ \E r \in Runs : Transcribed(r)
  \/ \E r \in Runs : GuardShort(r)
  \/ \E r \in Runs : GuardLong(r)
  \/ \E r \in Runs : StoreInsights(r)
  \/ \E r \in Runs : CatchHandler(r)

Spec == Init /\ [][Next]_vars

\* The steps of run r: a reply of the provider it awaits, or its queued
\* continuation.
RunProgress(r) ==
  /\ r \in Runs
  /\ \/ \E result \in WhisperResults : WhisperResolve(r, result)
     \/ \E m \in WhisperErrors : WhisperReject(r, m)
     \/ \E raw \in CompletionTexts : CompletionResolve(r, raw)
     \/ \E m \in CompletionErrors : CompletionReject(r, m)
     \/ Transcribed(r)
     \/ GuardShort(r)
     \/ GuardLong(r)
     \/ StoreInsights(r)
     \/ CatchHandler(r)

\* Every provider call eventually returns or fails, and the event loop
\* runs every queued continuation.
LiveSpec == Spec /\ \A r \in 1..MaxRuns : WF_vars(RunProgress(r))

\* --------------------------------- the pure functions, applied on their own
\* Candidate objects around every bound of InsightsSchema.
Candidates ==
  { [kind |-> "object",
     summary |-> Rep("s", ns),
     keyConcepts |-> Rep("concept", nk),
     flashcards |-> Rep([question |-> Rep("q", nq), answer |-> Rep("a", na)], nf),
     actionItems |-> Rep("item", ni)] :
      ns \in {SummaryMin - 1, SummaryMin},
      nk \in {KeyConceptsMin - 1, KeyConceptsMin, KeyConceptsMax,
              KeyConceptsMax + 1},
      nf \in {0, FlashcardsMax, FlashcardsMax + 1},
      nq \in {FlashcardFieldMin - 1, FlashcardFieldMin},
      na \in {FlashcardFieldMin - 1, FlashcardFieldMin},
      ni \in {ActionItemsMin - 1, ActionItemsMin, ActionItemsMax,
              ActionItemsMax + 1} }

\* Completion texts: every sequence of at most MaxTextLen atoms.
TextAtoms == {Fence, "json", "\n", "{good}", "{7 keyConcepts}", "Sure!"}
Texts == UNION {[1..k -> TextAtoms] : k \in 0..MaxTextLen}

PureInit ==
  /\ now = 1
  /\ apiKey = TRUE
  /\ files = {}
  /\ DB = [i \in Ids |-> 0]
  /\ heap = <<>>
  /\ runs = <<>>
  /\ polled = <<>>
  /\ \/ \E c \in Candidates : probe = [op |-> "validate", arg |-> c, out |-> <<>>]
     \/ \E t \in Texts : probe = [op |-> "sanitize", arg |-> t, out |-> <<>>]
     \/ \E t \in Texts : probe = [op |-> "generate", arg |-> t, out |-> <<>>]

\* InsightsSchema.safeParse(candidate) (index.js:522)
Validate ==
  /\ probe.op = "validate"
  /\ probe.out = <<>>
  /\ probe' = [probe EXCEPT !.out = <<InsightsSchema(probe.arg)>>]
  /\ UNCHANGED <<now, apiKey, files, DB, heap, runs, polled>>

\* The sanitizing step (index.js:507-512) applied to the text
SanitizeOnce ==
  /\ probe.op = "sanitize"
  /\ probe.out = <<>>
  /\ probe' = [probe EXCEPT !.out = <<Sanitize(probe.arg)>>]
  /\ UNCHANGED <<now, apiKey, files, DB, heap, runs, polled>>

\* ... and applied again to its own result
SanitizeAgain ==
  /\ probe.op = "sanitize"
  /\ Len(probe.out) = 1
  /\ probe' = [probe EXCEPT !.out = Append(@, Sanitize(probe.out[1]))]
  /\ UNCHANGED <<now, apiKey, files, DB, heap, runs, polled>>

\* generateInsightsFromTranscript on the provider's text (index.js:501-528)
Generate ==
  /\ probe.op = "generate"
  /\ probe.out = <<>>
  /\ probe' = [probe EXCEPT !.out = <<InsightsFromRaw(probe.arg)>>]
  /\ UNCHANGED <<now, apiKey, files, DB, heap, runs, polled>>

PureNext == Validate \/ SanitizeOnce \/ SanitizeAgain \/ Generate

PureSpec == PureInit /\ [][PureNext]_vars

\* ================================================================== claims
Statuses == {"processing", "transcribed", "ready", "failed"}

Registered == {DB[id] : id \in Ids} \ {0}

\* This step is a reprocess request on session object o.
ReprocessStep(o) ==
  /\ Len(runs') > Len(runs)
  /\ runs'[Len(runs')].kind = "reprocess"
  /\ runs'[Len(runs')].obj = o

\* This step is a .catch handler recording a failure on session object o.
FailureStep(o) ==
  \E r \in Runs :
    runs[r].obj = o /\ runs[r].pc = "rejected" /\ runs'[r].pc = "failed"

RunsOn(o) == {r \in Runs : runs[r].obj = o}

\* C1: apart from the reset to processing by a reprocess request, every
\* change of a session's status is processing->transcribed,
\* transcribed->ready or anything->failed; ready and failed are left only
\* by a reprocess request.
C1_StatusTransitions ==
  [][\A o \in Objs :
       heap'[o].status # heap[o].status =>
         \/ heap[o].status = "processing" /\ heap'[o].status = "transcribed"
         \/ heap[o].status = "transcribed" /\ heap'[o].status = "ready"
         \/ heap'[o].status = "failed"
         \/ heap'[o].status = "processing" /\ ReprocessStep(o)]_vars

\* C2: in every state a poll can observe, a registered session has
\* non-null insights exactly when its status is ready.
C2_InsightsIffReady ==
  Idle => \A o \in Registered :
            (heap[o].insights # Null) <=> (heap[o].status = "ready")

\* The run r has just passed the short-transcript guard in this step.
PassedGuard(r) == runs[r].pc = "guard" /\ runs'[r].pc # "guard"

\* C3: a run whose transcript has trimmed length < 20 never calls the
\* completion provider and ends ready with the fixed fallback insights; a
\* run whose transcript has trimmed length >= 20 calls insight generation
\* before it can reach ready.
C3_ShortTranscriptGuard ==
  [][\A r \in Runs :
       /\ (PassedGuard(r) /\ Len(Trim(runs[r].transcript)) < MinTranscriptLen)
            => /\ runs'[r].pc = "done"
               /\ runs'[r].completionCalls = 0
               /\ heap'[runs[r].obj].status = "ready"
               /\ heap'[runs[r].obj].insights = Some(FallbackInsights)
       /\ (PassedGuard(r) /\ Len(Trim(runs[r].transcript)) >= MinTranscriptLen)
            => /\ runs'[r].pc = "completion"
               /\ runs'[r].completionCalls = 1
               /\ heap'[runs[r].obj] = heap[runs[r].obj]
       /\ runs'[r].completionCalls > 0
            => Len(Trim(runs'[r].transcript)) >= MinTranscriptLen
       /\ (runs'[r].pc = "done"
             /\ Len(Trim(runs'[r].transcript)) >= MinTranscriptLen)
            => runs'[r].completionCalls > 0]_vars

\* C3 witness: a run on a too-short transcript has ended ready with the
\* fallback, without a completion call.
C3_Witness ==
  \E r \in Runs :
    /\ runs[r].pc = "done"
    /\ runs[r].whisperCalls = 1
    /\ Len(runs[r].transcript) = MinTranscriptLen - 1
    /\ runs[r].completionCalls = 0
    /\ heap[runs[r].obj].insights = Some(FallbackInsights)

\* C4: a run that fails at any step performs no further writes, and the
\* session is recorded failed, with progress 0 and the failure's message as
\* error; no failure is dropped.
C4_FailureRecorded ==
  [][\A r \in Runs :
       /\ runs[r].pc = "rejected"
            => /\ runs[r].err # ""
               /\ runs'[r] = [runs[r] EXCEPT !.pc = "failed"]
               /\ heap'[runs[r].obj] =
                    [heap[runs[r].obj] EXCEPT !.status = "failed",
                                              !.progress = 0,
                                              !.error = Some(runs[r].err)]
       /\ runs[r].pc = "failed" => runs'[r] = runs[r]
       /\ runs[r].err # "" => runs[r].pc \in {"rejected", "failed"}
       /\ runs'[r].pc = "done" => runs'[r].err = ""]_vars

\* C4 witness: a run failed on schema validation, after both provider
\* calls, and its session shows the failure.
C4_Witness ==
  \E r \in Runs :
    /\ runs[r].pc = "failed"
    /\ runs[r].completionCalls = 1
    /\ heap[runs[r].obj].status = "failed"
    /\ heap[runs[r].obj].progress = 0
    /\ heap[runs[r].obj].error = Some(SchemaError)

\* C5: between two consecutive resets (a reprocess request or a recorded
\* failure) the progress a poll observes never decreases and is one of
\* 0, 10, 60, 100.
C5_ProgressMonotone ==
  [][Idle' =>
       \A o \in 1..Len(polled) :
         /\ heap'[o].progress \in {0, 10, 60, 100}
         /\ heap'[o].progress < polled[o].progress
              => ReprocessStep(o) \/ FailureStep(o)]_vars

\* C6: a registered session has a non-null error only if its status is
\* failed.
C6_ErrorOnlyWhenFailed ==
  \A o \in Registered : heap[o].error # Null => heap[o].status = "failed"

\* C7: every successful create adds a registry entry under a fresh id, so
\* the registry holds as many sessions as there were successful creates.
C7_UniqueIds ==
  Cardinality({id \in Ids : DB[id] # 0}) = Len(heap)

\* C8: every insights value stored on a session satisfies the
\* InsightsResult bounds.
C8_StoredInsightsValid ==
  \A o \in Objs :
    heap[o].insights # Null => InsightsSchema(heap[o].insights[1])

\* C9: the response to a create or reprocess request reports processing,
\* and no failure of the run it started is on the session record when the
\* response is produced.
C9_ResponseProcessing ==
  [][Len(runs') > Len(runs) =>
       LET r == Len(runs') IN
         /\ runs'[r].response = "processing"
         /\ runs'[r].pc # "failed"
         /\ heap'[runs'[r].obj].status = "processing"
         /\ heap'[runs'[r].obj].error = Null]_vars

\* C9 witness: a run failed before any provider call (missing credentials
\* or missing audio file), and the request that started it had answered
\* processing.
C9_Witness ==
  \E r \in Runs :
    /\ runs[r].pc = "failed"
    /\ runs[r].whisperCalls = 0
    /\ runs[r].err = AudioNotFoundError
    /\ runs[r].response = "processing"
    /\ heap[runs[r].obj].status = "failed"

\* C10: at most one pipeline run is in flight for a session at any time.
C10_SingleWriter ==
  \A o \in Objs : Cardinality({r \in RunsOn(o) : InFlight(r)}) <= 1

\* The run r settles in this step and leaves no run in flight on its session.
SettlesLast(r) ==
  /\ InFlight(r)
  /\ runs'[r].pc \in FinalPcs
  /\ \A q \in RunsOn(runs[r].obj) \ {r} : ~InFlight(q)

\* The record run r leaves when no other run writes its session.
RecordOfRunAlone(s, run, t) ==
  IF run.pc = "done"
    THEN [s EXCEPT !.status = "ready", !.progress = 100, !.error = Null,
                   !.transcript = run.transcript,
                   !.insights =
                     IF Len(Trim(run.transcript)) < MinTranscriptLen
                       THEN Some(FallbackInsights) ELSE run.insights,
                   !.processedAt = Some(t)]
    ELSE [s EXCEPT !.status = "failed", !.progress = 0,
                   !.error = Some(run.err),
                   !.transcript = run.transcript,
                   !.insights = Null, !.processedAt = Null]

\* C11: when a reprocess was issued while an earlier run on the session was
\* in flight and both runs have completed, the record is exactly what the
\* run completing last would have written alone: status, progress,
\* transcript, insights, processedAt and error all come from that run.
C11_LastWriterWins ==
  [][\A r \in Runs :
       (SettlesLast(r) /\ \E q \in RunsOn(runs[r].obj) : runs[q].concurrent)
         => heap'[runs[r].obj] =
              RecordOfRunAlone(heap[runs[r].obj], runs'[r], now)]_vars

\* The InsightsResult bounds as the contract states them.
WithinBounds(v) ==
  /\ v.kind = "object"
  /\ Len(v.summary) >= 20
  /\ Len(v.keyConcepts) \in 1..6
  /\ Len(v.flashcards) \in 0..5
  /\ \A i \in 1..Len(v.flashcards) :
       Len(v.flashcards[i].question) >= 5 /\ Len(v.flashcards[i].answer) >= 5
  /\ Len(v.actionItems) \in 1..5

\* C12: validation rejects every candidate with more than 5 flashcards, 0 or
\* more than 6 keyConcepts, 0 or more than 5 actionItems, or a summary
\* shorter than 20 characters, and accepts every candidate within bounds.
C12_ValidationBounds ==
  (probe.op = "validate" /\ probe.out # <<>>) =>
    /\ Len(probe.arg.flashcards) > 5 => probe.out[1] = FALSE
    /\ Len(probe.arg.keyConcepts) \in {0, 7} => probe.out[1] = FALSE
    /\ Len(probe.arg.actionItems) \in {0, 6} => probe.out[1] = FALSE
    /\ Len(probe.arg.summary) < 20 => probe.out[1] = FALSE
    /\ probe.out[1] = WithinBounds(probe.arg)

\* C12 witness: a candidate at the upper bounds (6 keyConcepts, 5 flashcards,
\* 5 actionItems, a summary of 20) has been validated and accepted.
C12_Witness ==
  /\ probe.op = "validate"
  /\ Len(probe.arg.keyConcepts) = 6
  /\ Len(probe.arg.flashcards) = 5
  /\ Len(probe.arg.actionItems) = 5
  /\ Len(probe.arg.summary) = 20
  /\ probe.out = <<TRUE>>

\* The text t is the JSON document d, bare or enclosed in a fenced block: an
\* opening fence, directly followed by an optional json tag, then d, then an
\* optional closing fence, with whitespace allowed around d and the block.
EnclosedJson(t, d) ==
  LET u == Trim(t)
      body == IF Len(u) >= 2 /\ u[2] = "json"
                THEN SubSeq(u, 3, Len(u)) ELSE Tail(u)
      inner == IF body # <<>> /\ body[Len(body)] = Fence
                 THEN SubSeq(body, 1, Len(body) - 1) ELSE body
  IN  \/ u = <<d>>
      \/ u # <<>> /\ u[1] = Fence /\ Trim(inner) = <<d>>

\* C13: completion text that is, once an enclosing fenced block is removed,
\* valid JSON violating the Insights bounds fails with the schema-validation
\* error, never the invalid-JSON error; the invalid-JSON error is produced
\* only when the sanitized text is not JSON.
C13_SchemaErrorNotParseError ==
  (probe.op = "generate" /\ probe.out # <<>>) =>
    /\ \A d \in JsonDocs :
         (EnclosedJson(probe.arg, d) /\ ~WithinBounds(JsonValue(d)))
           => probe.out[1] = [ok |-> FALSE, error |-> SchemaError]
    /\ probe.out[1] = [ok |-> FALSE, error |-> InvalidJsonError]
         => \A d \in JsonDocs : ~EnclosedJson(probe.arg, d)
    /\ (\A d \in JsonDocs : ~EnclosedJson(probe.arg, d))
         => probe.out[1] = [ok |-> FALSE, error |-> InvalidJsonError]

\* C13 witness: 7 keyConcepts inside a json-tagged fenced block have been
\* refused with the schema-validation error.
C13_Witness ==
  /\ probe.op = "generate"
  /\ probe.arg = <<Fence, "json", "\n", "{7 keyConcepts}", Fence>>
  /\ probe.out = <<[ok |-> FALSE, error |-> SchemaError]>>

\* The text t is the JSON document d in one fenced block, the opening fence
\* tagged json or not, with at most a newline on either side of d.
FencedBlock(t, d) ==
  \E tag \in {<<>>, <<"json">>}, w1, w2 \in {<<>>, <<"\n">>} :
    t = <<Fence>> \o tag \o w1 \o <<d>> \o w2 \o <<Fence>>

\* Clean JSON is returned unchanged, and a fenced JSON payload yields its
\* inner text whether or not the fence is tagged.
SanitizeOnJson ==
  \A d \in JsonDocs :
    /\ probe.arg = <<d>> => probe.out[1] = probe.arg
    /\ FencedBlock(probe.arg, d) => probe.out[1] = <<d>>

BeginsWithFence(t) == t # <<>> /\ t[1] = Fence

\* C14: the sanitizing step is idempotent: clean JSON is returned unchanged,
\* applying it twice gives the same result as applying it once, and a fenced
\* JSON payload yields the same inner text with or without the json tag.
C14_SanitizeIdempotent ==
  (probe.op = "sanitize" /\ Len(probe.out) = 2) =>
    /\ SanitizeOnJson
    /\ probe.out[2] = probe.out[1]

\* C14 as amended: clean JSON is returned unchanged and a fenced JSON payload
\* yields the same inner text with or without the json tag; applying the step
\* twice gives the same result as applying it once exactly when the result of
\* the first application does not still begin with a fence.
C14_SanitizeIdempotentOnUnfenced ==
  (probe.op = "sanitize" /\ Len(probe.out) = 2) =>
    /\ SanitizeOnJson
    /\ ~BeginsWithFence(probe.out[1]) => probe.out[2] = probe.out[1]
    /\ BeginsWithFence(probe.out[1]) => probe.out[2] # probe.out[1]

\* C14 witness: a json-tagged fenced block has been sanitized twice, both
\* results being the bare document.
C14_Witness ==
  /\ probe.op = "sanitize"
  /\ probe.arg = <<Fence, "json", "\n", "{good}", Fence>>
  /\ probe.out = << <<"{good}">>, <<"{good}">> >>

\* C15: a reprocess request mutates the existing record in place: it clears
\* transcript, insights, processedAt and error and resets progress before
\* the new run starts (which then sets progress 10), leaves id, audio
\* reference and createdAt unchanged, adds and removes no registry entry,
\* and the new run transcribes the stored audio reference of the original.
C15_ReprocessInPlace ==
  [][\A o \in Objs :
       ReprocessStep(o) =>
         /\ heap' = [heap EXCEPT ![o] =
                       [heap[o] EXCEPT !.transcript = <<>>, !.insights = Null,
                                       !.processedAt = Null, !.error = Null,
                                       !.status = "processing",
                                       !.progress = 10]]
         /\ DB' = DB
         /\ files' = files
         /\ runs'[Len(runs')].audioPath = heap[o].audioPath
         /\ \A q \in RunsOn(o) : runs[q].audioPath = runs'[Len(runs')].audioPath
         /\ \A q \in Runs : runs'[q] = runs[q]]_vars

\* C15 witness: a session whose first run had ended ready has been
\* reprocessed: its record is cleared and the new run awaits transcription
\* of the same audio.
C15_Witness ==
  \E q, r \in Runs :
    /\ q < r
    /\ runs[q].obj = runs[r].obj
    /\ runs[q].pc = "done"
    /\ runs[r].kind = "reprocess"
    /\ runs[r].pc = "whisper"
    /\ runs[r].audioPath = runs[q].audioPath
    /\ heap[runs[r].obj].status = "processing"
    /\ heap[runs[r].obj].transcript = <<>>
    /\ heap[runs[r].obj].insights = Null
    /\ heap[runs[r].obj].processedAt = Null

\* C16: a run issues at most one transcription call and at most one
\* completion call; the completion call is issued only after the
\* transcription call has returned and the session has been set to
\* transcribed; after a failure the run issues no further provider call.
C16_SequentialNoRetry ==
  [][/\ \A r \in 1..Len(runs') :
          runs'[r].whisperCalls <= 1 /\ runs'[r].completionCalls <= 1
     /\ \A r \in Runs :
          /\ runs'[r].whisperCalls = runs[r].whisperCalls
          /\ runs'[r].completionCalls # runs[r].completionCalls
               => /\ runs[r].whisperCalls = 1
                  /\ runs[r].pc = "guard"
                  /\ runs[r].err = ""
                  /\ heap[runs[r].obj].status = "transcribed"
                  /\ heap[runs[r].obj].transcript = runs[r].transcript
          /\ runs[r].err # ""
               => runs'[r].completionCalls = runs[r].completionCalls]_vars

\* C16 witness: a run made both calls, the completion provider failed, and
\* the run ended without another call.
C16_Witness ==
  \E r \in Runs :
    /\ runs[r].pc = "failed"
    /\ runs[r].err \in CompletionErrors
    /\ runs[r].whisperCalls = 1
    /\ runs[r].completionCalls = 1

\* C17: without provider credentials every run fails with the configuration
\* error before any provider call; the session goes from processing
\* (progress 10) to failed (progress 0), never through transcribed, and its
\* transcript and insights stay empty.
C17_MissingCredentials ==
  ~apiKey =>
    /\ \A r \in Runs :
         /\ runs[r].whisperCalls = 0
         /\ runs[r].completionCalls = 0
         /\ runs[r].err = MissingKeyError
         /\ runs[r].pc \in {"rejected", "failed"}
    /\ \A o \in Objs :
         /\ heap[o].status \in {"processing", "failed"}
         /\ heap[o].transcript = <<>>
         /\ heap[o].insights = Null
         /\ heap[o].status = "processing" => heap[o].progress = 10
         /\ heap[o].status = "failed"
              => heap[o].progress = 0 /\ heap[o].error = Some(MissingKeyError)

\* C17 witness: without credentials, a reprocess run of a session whose
\* audio file is gone has failed, and the session is failed.
C17_Witness ==
  /\ ~apiKey
  /\ \E r \in Runs :
       /\ runs[r].kind = "reprocess"
       /\ runs[r].pc = "failed"
       /\ runs[r].audioPath \notin files
       /\ heap[runs[r].obj].status = "failed"

\* C18: in every state a poll can observe, status processing goes with
\* progress 10, transcribed with 60, ready with 100, and failed with 0 and a
\* non-null error.
C18_StatusDeterminesProgress ==
  Idle =>
    \A o \in Objs :
      /\ heap[o].status = "processing" => heap[o].progress = 10
      /\ heap[o].status = "transcribed" => heap[o].progress = 60
      /\ heap[o].status = "ready" => heap[o].progress = 100
      /\ heap[o].status = "failed"
           => heap[o].progress = 0 /\ heap[o].error # Null
      /\ heap[o].status \in Statuses

\* C18 witness: with two runs overlapping on a session, one has failed and
\* the other has since set the session to transcribed with progress 60.
C18_Witness ==
  /\ Idle
  /\ \E q, r \in Runs :
       /\ q # r
       /\ runs[q].obj = runs[r].obj
       /\ runs[r].concurrent
       /\ runs[q].pc = "failed"
       /\ runs[r].pc = "completion"
       /\ heap[runs[r].obj].status = "transcribed"
       /\ heap[runs[r].obj].progress = 60

\* C19: a session with status ready has non-null insights and a non-null
\* processedAt.
C19_ReadyHasInsights ==
  \A o \in Objs :
    heap[o].status = "ready"
      => heap[o].insights # Null /\ heap[o].processedAt # Null

\* C19 witness: a session is ready after two overlapping runs have both
\* ended, the one that failed first.
C19_Witness ==
  \E q, r \in Runs :
    /\ q # r
    /\ runs[q].obj = runs[r].obj
    /\ runs[r].concurrent
    /\ runs[q].pc = "failed"
    /\ runs[r].pc = "done"
    /\ heap[runs[r].obj].status = "ready"
    /\ heap[runs[r].obj].error # Null

\* C20: if every provider call eventually returns or fails (and the
\* reprocess requests are finitely many), every run eventually terminates
\* and every session eventually reaches ready or failed and stays there.
C20_EventuallySettled ==
  /\ <>[](\A r \in Runs : ~InFlight(r))
  /\ <>[](\A o \in Objs : heap[o].status \in {"ready", "failed"})

\* C20 witness: a session has been reprocessed, both of its runs have
\* ended, and it is ready or failed.
C20_Witness ==
  \E q, r \in Runs :
    /\ q < r
    /\ runs[q].obj = runs[r].obj
    /\ runs[r].kind = "reprocess"
    /\ ~InFlight(q) /\ ~InFlight(r)
    /\ runs[r].obj \in Registered
    /\ heap[runs[r].obj].status \in {"ready", "failed"}

====
